---- MODULE Spec2Model ----
(***************************************************************************)
(* Cancellable streaming analysis of the ANR/Tombstone AI analyzer.        *)
(*                                                                         *)
(* SpecRegistry : the CancellationManager / CancellationToken pair and the *)
(*                cancel endpoint, driven by concurrent callers.           *)
(* Spec         : one analysis streamed through generate(), the engine and *)
(*                an analyzer, raced by cancel requests.                   *)
(* SpecLive     : Spec with weak fairness of each analysis.                *)
(* SpecChunker  : split_log.                                               *)
(* SpecLargeFile: analyze_large_file and its tasks.                        *)
(* SpecClient, SpecClientLive : the page consuming one analysis stream.    *)
(* SpecPage     : AppState under overlapping startAnalysis calls, cancel   *)
(*                and clearAll.                                            *)
(* SpecHistory  : the analysis history of local storage.                   *)
(* SpecRequest  : ApiClient.request and its timer.                         *)
(* SpecCharts   : the registry of ChartManager.                            *)
(* SpecDebounce, SpecThrottle : Utils.debounce and Utils.throttle.         *)
(***************************************************************************)
EXTENDS Integers, Sequences, FiniteSets, TLC

(* ------------------------------ bounds -------------------------------- *)
NumIds == 2        \* analysis ids the callers may name
NumCallers == 2    \* concurrent callers of the manager
MaxTokens == 3     \* token objects constructed in one run
MaxClock == 4      \* readings of time.time()
MaxOps == 4        \* manager calls in one run of SpecRegistry
MaxCancels == 1    \* cancel requests in one run of Spec
MaxChunks == 2     \* chunks of one analysis
MaxFrags == 3      \* text fragments the provider sends in one analysis
MaxContentLen == 12 \* characters of a small content handed to split_log
MaxChunkSize == 5   \* chunk_size of a small split_log call
MaxFragLen == 80   \* characters of one text fragment
MaxLargeChunks == 4 \* chunks of the largest content given to analyze_large_file
MaxStarts == 2     \* calls of startAnalysis in one run of SpecPage
MaxPageContents == 1 \* content events of one stream of SpecPage
MaxPageCancels == 1 \* cancel requests the page sends in one run of SpecPage
MaxRuns == 12      \* analyses in one run of SpecHistory
MaxHistoryLimit == 2 \* the largest small maxHistoryItems read from appSettings
NumRequests == 2   \* concurrent calls of ApiClient.request
NumCanvases == 2   \* canvas ids the charts are created for
MaxCharts == 3     \* Chart objects constructed in one run of SpecCharts
MaxTime == 5       \* readings of the timer clock
MaxCalls == 3      \* calls of the debounced or of the throttled function
NumArgs == 2       \* arguments a call may carry
Delay == 2         \* wait of the debounced and limit of the throttled function

Ids == 1..NumIds
Callers == 1..NumCallers
Analyses == {1}
Clients == {1}
FragLens == {MaxFragLen \div 2, MaxFragLen}

(* Python's None for cancelled_at, and "no entry" of the _tokens dict. *)
None == -1
NoToken == 0

VARIABLES
    clock,      \* the last value time.time() returned
    tokenObjs,  \* every CancellationToken object ever constructed, by identity
    _tokens,    \* CancellationManager._tokens : analysis_id -> token identity
    _lock,      \* CancellationManager._lock : its holder, 0 when free
    req,        \* the registry callers: position and locals of each call
    opsDone,    \* number of registry calls started
    wins,       \* per token object: how many cancel_analysis calls returned True on it
    an,         \* the analyses: position and locals of generate(), engine and analyzer
    chunker,    \* a call of split_log: its arguments and its result
    client,     \* the web page: AppState and the position of AnalysisController
    large,      \* a call of analyze_large_file: its chunks and their tasks
    page,       \* the web page in detail: AppState, the startAnalysis calls in flight,
                \* the EventSource objects and the streams the server answers with
    browser     \* the page's helpers: the calls of ApiClient.request and the
                \* registry of ChartManager with its Chart objects, a debounced
                \* and a throttled function with their timers

regVars == <<clock, tokenObjs, _tokens, _lock, req, opsDone, wins>>
otherVars == <<chunker, client, large, page, browser>>
vars == <<clock, tokenObjs, _tokens, _lock, req, opsDone, wins, an, chunker, client,
          large, page, browser>>

(* --------------------------- CancellationToken ------------------------- *)
\* A constructor that initialises the wrong timestamp field.
NewTokenStamped(analysis_id, now) ==
    [analysis_id |-> analysis_id, is_cancelled |-> FALSE,
     created_at |-> now, cancelled_at |-> now]

\* CancellationToken.__init__
NewToken(analysis_id, now) ==
    [analysis_id |-> analysis_id, is_cancelled |-> FALSE,
     created_at |-> now, cancelled_at |-> None]

\* CancellationToken.cancel
TokenCancel(t, now) ==
    IF ~t.is_cancelled
    THEN [t EXCEPT !.is_cancelled = TRUE, !.cancelled_at = now]
    ELSE t

\* A check that never raises.
check_cancelled_asyncNever(objs, tok) == FALSE

\* CancellationToken.check_cancelled_async: TRUE when it raises CancelledError
check_cancelled_async(objs, tok) == objs[tok].is_cancelled

\* time.time(): each reading is later than the one before, up to the bound
Readings == {IF clock < MaxClock THEN clock + 1 ELSE MaxClock}

(* -------------------------- CancellationManager ------------------------ *)
\* A lock that excludes nobody.
LockNeverHeld(holder) == TRUE

\* asyncio.Lock of the manager: free when nobody holds it
LockFree(holder) == holder = 0

\* _tokens.get(analysis_id)
TokensGet(tokmap, analysis_id) == tokmap[analysis_id]

\* A create_token that re-initialises the token already registered for the id
\* before it constructs the new one.
ConstructedInPlace(objs, tokmap, analysis_id, now) ==
    LET old == tokmap[analysis_id]
        kept == IF old = NoToken THEN objs
                ELSE [objs EXCEPT ![old] = NewToken(analysis_id, now)]
    IN Append(kept, NewToken(analysis_id, now))

\* create_token: `token = CancellationToken(analysis_id)`, a new object
Constructed(objs, tokmap, analysis_id, now) ==
    Append(objs, NewToken(analysis_id, now))

\* A registry that keeps one token for all the analyses.
RegisteredForAll(tokmap, analysis_id, tok) == [i \in DOMAIN tokmap |-> tok]

\* create_token: `self._tokens[analysis_id] = token`
Registered(tokmap, analysis_id, tok) == [tokmap EXCEPT ![analysis_id] = tok]

\* The guard of cancel_analysis without its is_cancelled test.
ShouldCancelAny(objs, tok) == tok # NoToken

\* cancel_analysis: `if token and not token.is_cancelled`
ShouldCancel(objs, tok) == tok # NoToken /\ ~objs[tok].is_cancelled

\* The cancel endpoint's status for a cancel_analysis result: 200, or 404 with
\* {'success': False, 'error': 'Analysis not found or already completed'}
HttpStatus(success) == IF success THEN 200 ELSE 404

\* ApiClient.request: response.ok
ResponseOk(status) == status >= 200 /\ status <= 299

NoSnapshot == NewToken(0, 0)
Snapshot(objs, tok) == IF tok = NoToken THEN NoSnapshot ELSE objs[tok]

IdleReq ==
    [pc |-> "idle", op |-> "none", id |-> 1, tok |-> NoToken, will |-> FALSE,
     result |-> FALSE, made |-> NoToken, before |-> NoSnapshot,
     after |-> NoSnapshot, http |-> 0, logged |-> FALSE]

\* A caller starts create_token(id).
CallCreate(c) ==
    /\ req[c].pc \in {"idle", "done"}
    /\ opsDone < MaxOps
    /\ Len(tokenObjs) < MaxTokens
    /\ \E id \in Ids :
          req' = [req EXCEPT ![c] = [IdleReq EXCEPT !.pc = "acquire", !.op = "create", !.id = id]]
    /\ opsDone' = opsDone + 1
    /\ UNCHANGED <<clock, tokenObjs, _tokens, _lock, wins, an, otherVars>>

\* A client posts to the cancel endpoint: AnalysisController.cancelAnalysis ->
\* ApiClient.cancelAnalysis -> cancel_analysis(analysis_id).
CallCancel(c) ==
    /\ req[c].pc \in {"idle", "done"}
    /\ opsDone < MaxOps
    /\ \E id \in Ids :
          req' = [req EXCEPT ![c] = [IdleReq EXCEPT !.pc = "acquire", !.op = "cancel", !.id = id]]
    /\ opsDone' = opsDone + 1
    /\ UNCHANGED <<clock, tokenObjs, _tokens, _lock, wins, an, otherVars>>

\* `async with self._lock:` entered
Acquire(c) ==
    /\ req[c].pc = "acquire"
    /\ LockFree(_lock)
    /\ _lock' = c
    /\ req' = [req EXCEPT ![c].pc = "locked"]
    /\ UNCHANGED <<clock, tokenObjs, _tokens, opsDone, wins, an, otherVars>>

\* create_token under the lock: a new token object replaces the dict entry
create_token(c) ==
    /\ req[c].pc = "locked" /\ req[c].op = "create"
    /\ \E now \in Readings :
          /\ clock' = now
          /\ tokenObjs' = Constructed(tokenObjs, _tokens, req[c].id, now)
    /\ _tokens' = Registered(_tokens, req[c].id, Len(tokenObjs) + 1)
    /\ _lock' = 0
    /\ req' = [req EXCEPT ![c].pc = "done", ![c].tok = _tokens[req[c].id],
                          ![c].before = Snapshot(tokenObjs, _tokens[req[c].id]),
                          ![c].after = tokenObjs'[Len(tokenObjs) + 1],
                          ![c].made = Len(tokenObjs) + 1]
    /\ wins' = Append(wins, 0)
    /\ UNCHANGED <<opsDone, an, otherVars>>

\* cancel_analysis under the lock, first half: the lookup and the test
cancel_analysis_test(c) ==
    /\ req[c].pc = "locked" /\ req[c].op = "cancel"
    /\ LET tok == TokensGet(_tokens, req[c].id) IN
          req' = [req EXCEPT ![c].pc = "apply", ![c].tok = tok,
                     ![c].will = ShouldCancel(tokenObjs, tok),
                     ![c].before = Snapshot(tokenObjs, tok)]
    /\ UNCHANGED <<clock, tokenObjs, _tokens, _lock, opsDone, wins, an, otherVars>>

\* cancel_analysis, second half: token.cancel() and the return; the lock is
\* released, the endpoint answers, and ApiClient.request throws on a non-OK
\* answer, which AnalysisController.cancelAnalysis catches and logs.
cancel_analysis_apply(c) ==
    /\ req[c].pc = "apply"
    /\ LET tok == req[c].tok
           status == HttpStatus(req[c].will)
       IN
          IF req[c].will
          THEN \E now \in Readings :
                  /\ clock' = now
                  /\ tokenObjs' = [tokenObjs EXCEPT ![tok] = TokenCancel(@, now)]
                  /\ wins' = [wins EXCEPT ![tok] = @ + 1]
                  /\ req' = [req EXCEPT ![c].pc = "done", ![c].result = TRUE,
                                ![c].after = TokenCancel(tokenObjs[tok], now),
                                ![c].http = status,
                                ![c].logged = ~ResponseOk(status)]
          ELSE /\ UNCHANGED <<clock, tokenObjs, wins>>
               /\ req' = [req EXCEPT ![c].pc = "done", ![c].result = FALSE,
                             ![c].after = Snapshot(tokenObjs, tok),
                             ![c].http = status,
                             ![c].logged = ~ResponseOk(status)]
    /\ _lock' = 0
    /\ UNCHANGED <<_tokens, opsDone, an, otherVars>>

\* A cancel request during an analysis (Cancel button, Escape, or any other
\* client): the whole endpoint call, which runs once the lock is free.
ClientCancel(c) ==
    /\ opsDone < MaxCancels
    /\ LockFree(_lock)
    /\ \E id \in {an[a].id : a \in {x \in Analyses : an[x].events # <<>>}} :
          LET tok == TokensGet(_tokens, id)
              will == ShouldCancel(tokenObjs, tok)
              status == HttpStatus(will)
              answer == [IdleReq EXCEPT !.pc = "done", !.op = "cancel", !.id = id,
                            !.tok = tok, !.will = will, !.result = will,
                            !.http = status, !.logged = ~ResponseOk(status)]
          IN
             /\ req' = [req EXCEPT ![c] = answer]
             /\ IF will
                THEN \E now \in Readings :
                        /\ clock' = now
                        /\ tokenObjs' = [tokenObjs EXCEPT ![tok] = TokenCancel(@, now)]
                        /\ wins' = [wins EXCEPT ![tok] = @ + 1]
                ELSE UNCHANGED <<clock, tokenObjs, wins>>
    /\ opsDone' = opsDone + 1
    /\ UNCHANGED <<_tokens, _lock, an, otherVars>>

(* ------------------------------ events --------------------------------- *)
Event(type, chunk, len, pct, current, total) ==
    [type |-> type, chunk |-> chunk, len |-> len,
     progress_percentage |-> pct, current_chunk |-> current, total_chunks |-> total,
     content |-> <<>>, error |-> ""]

StartEvent == Event("start", 0, 0, 0, 0, 0)
ContentEvent(chunk, len) == Event("content", chunk, len, 0, 0, 0)
TerminalEvent(type) == Event(type, 0, 0, 0, 0, 0)

\* generate(): {'type': 'error', 'error': str(e)}: the event carries the text of
\* the exception that ended the analysis
ErrorEvent(raised) == [TerminalEvent("error") EXCEPT !.error = raised]

Min(x, y) == IF x <= y THEN x ELSE y

\* generate(): `progress = min(chunk_count * 10, 90)` and the progress event;
\* total_chunks is the local that stays 1
ProgressEvent(chunk, chunk_count) ==
    Event("progress", chunk, 0, Min(chunk_count * 10, 90), chunk_count, 1)

TerminalTypes == {"complete", "cancelled", "error"}

\* A generate() whose handlers also test the token once the stream is exhausted.
TerminalOfChecked(raised, cancelled) ==
    CASE raised = "StopAsyncIteration" -> IF cancelled THEN "cancelled" ELSE "complete"
      [] raised = "CancellationException" -> "cancelled"
      [] OTHER -> "error"

\* A generate() whose `except Exception` handler reports a normal end.
TerminalOfErrorSwallowed(raised, cancelled) ==
    CASE raised = "StopAsyncIteration" -> "complete"
      [] raised = "CancellationException" -> "cancelled"
      [] OTHER -> "complete"

\* A generate() without the `except CancellationException` clause: the
\* cancellation falls through to `except Exception`.
TerminalOfNoCancelClause(raised, cancelled) ==
    CASE raised = "StopAsyncIteration" -> "complete"
      [] OTHER -> "error"

\* generate(): StopAsyncIteration -> break -> complete;
\* except CancellationException -> cancelled; except Exception -> error;
\* asyncio.CancelledError is a BaseException, which no handler of generate()
\* catches: "none" stands for no event, the exception leaves generate()
TerminalOf(raised, cancelled) ==
    CASE raised = "StopAsyncIteration" -> "complete"
      [] raised = "CancellationException" -> "cancelled"
      [] raised = "CancelledError" -> "none"
      [] OTHER -> "error"

(* ------------------------------ analyzers ------------------------------ *)
\* StreamingAnalyzer.check_interval
check_interval == 100

\* A threshold test on the chunk alone, not on the characters accumulated.
CheckDueByChunk(chars_since_check, len) == len >= check_interval

\* stream_with_cancellation: `if self.chars_since_check >= self.check_interval`
\* (chars_since_check already holds the chunk's length)
CheckDue(chars_since_check, len) == chars_since_check >= check_interval

(* ------------------------------- engine -------------------------------- *)
\* The coordinator's test of the token before it opens a chunk's stream, skipped.
EngineBoundaryCheckSkipped(objs, tok) == FALSE

\* Coordinator step 3a: before opening the provider stream, check the token
EngineBoundaryCheck(objs, tok) == objs[tok].is_cancelled

\* A cleanup that removes the token only after a cancellation.
RemoveTokenIfCancelled(tokmap, objs, analysis_id) ==
    IF tokmap[analysis_id] # NoToken /\ objs[tokmap[analysis_id]].is_cancelled
    THEN [tokmap EXCEPT ![analysis_id] = NoToken]
    ELSE tokmap

\* Registry remove(analysisId): idempotent, removes the entry if present
RemoveToken(tokmap, objs, analysis_id) == [tokmap EXCEPT ![analysis_id] = NoToken]

(* ------------------------------ analysis ------------------------------- *)
IdleAnalysis ==
    [pc |-> "idle", engine |-> TRUE, mode_valid |-> TRUE, analyzer |-> "anr",
     has_usage |-> FALSE, empty |-> FALSE, id |-> 1, total |-> 1, chunk |-> 0, tok |-> NoToken,
     head |-> 0, frags |-> 0, tail |-> 0, frag |-> 0, text |-> <<>>, output |-> <<>>,
     chars_since_check |-> 0, chunk_count |-> 0,
     events |-> <<>>, streams |-> <<>>, raised |-> "none", http |-> 0,
     flagAtStart |-> FALSE, flagAtLast |-> FALSE, flagAtEnd |-> FALSE,
     lateChars |-> 0, lateFirst |-> 0, detected |-> 0, signal |-> "none",
     thrown |-> "none"]

\* An endpoint that lets every content through.
ContentAlwaysPresent(empty) == FALSE

\* analyze_with_cancellation(): `if not content`
ContentMissing(empty) == empty

\* analyze_with_cancellation(): the request body is read; empty content is
\* answered 400 before any event
Request(a) ==
    /\ an[a].pc = "idle"
    /\ \E empty \in BOOLEAN :
          IF ContentMissing(empty)
          THEN an' = [an EXCEPT ![a].pc = "rejected", ![a].http = 400,
                                ![a].empty = empty]
          ELSE \E eng \in BOOLEAN, mv \in BOOLEAN, kind \in {"anr", "streaming"},
                  usage \in BOOLEAN, n \in 1..MaxChunks :
                  an' = [an EXCEPT ![a] = [IdleAnalysis EXCEPT
                            !.pc = "generate", !.engine = eng, !.mode_valid = mv,
                            !.analyzer = kind, !.has_usage = usage,
                            !.empty = empty, !.id = a,
                            !.total = n, !.http = 200]]
    /\ UNCHANGED <<regVars, otherVars>>

\* generate(): the start event
GenStart(a) ==
    /\ an[a].pc = "generate"
    /\ an' = [an EXCEPT ![a].pc = "started", ![a].events = <<StartEvent>>]
    /\ UNCHANGED <<regVars, otherVars>>

\* generate(): no ANALYSIS_ENGINE configured: loop.close() and `return ...`
\* inside the generator, which ends the event stream
GenNoEngine(a) ==
    /\ an[a].pc = "started"
    /\ ~an[a].engine
    /\ an' = [an EXCEPT ![a].pc = "closed"]
    /\ UNCHANGED <<regVars, otherVars>>

\* generate(): AnalysisMode(mode) / ModelProvider(provider); an unknown value
\* raises ValueError, caught by `except Exception`
GenConvert(a) ==
    /\ an[a].pc = "started"
    /\ an[a].engine
    /\ IF an[a].mode_valid
       THEN an' = [an EXCEPT ![a].pc = "engine"]
       ELSE an' = [an EXCEPT ![a].pc = "terminal", ![a].raised = "ValueError"]
    /\ UNCHANGED <<regVars, otherVars>>

\* engine.analyze_with_cancellation starts: the token of the analysis is created
EngineBegin(a) ==
    /\ an[a].pc = "engine"
    /\ LockFree(_lock)
    /\ Len(tokenObjs) < MaxTokens
    /\ \E now \in Readings :
          /\ clock' = now
          /\ tokenObjs' = Constructed(tokenObjs, _tokens, an[a].id, now)
    /\ _tokens' = Registered(_tokens, an[a].id, Len(tokenObjs) + 1)
    /\ wins' = Append(wins, 0)
    /\ an' = [an EXCEPT ![a].pc = "boundary", ![a].chunk = 1,
                        ![a].tok = Len(tokenObjs) + 1]
    /\ UNCHANGED <<_lock, req, opsDone, otherVars>>

\* The engine finds the token cancelled at a chunk boundary.
EngineBoundaryCancelled(a) ==
    /\ an[a].pc = "boundary"
    /\ EngineBoundaryCheck(tokenObjs, an[a].tok)
    /\ an' = [an EXCEPT ![a].pc = "cleanup", ![a].raised = "CancellationException",
                        ![a].flagAtStart = IF an[a].chunk = 1 THEN TRUE ELSE @]
    /\ UNCHANGED <<regVars, otherVars>>

\* An engine that lets the analyzer's exception through as it is.
EngineRaiseUntranslated(signal) == signal

\* The engine's consumption loop is unwound by the analyzer's
\* asyncio.CancelledError, which leaves the engine as the CancellationException
\* that generate() catches; every other exception passes unchanged
EngineRaise(signal) ==
    IF signal = "CancelledError" THEN "CancellationException" ELSE signal

\* An `except asyncio.CancelledError` handler that cleans up and does not
\* re-raise: the analyzer's generator ends as if the stream were exhausted.
ExceptCancelledErrorSwallowed(r) ==
    IF r.chunk < r.total
    THEN [r EXCEPT !.pc = "boundary", !.chunk = @ + 1]
    ELSE [r EXCEPT !.pc = "cleanup", !.raised = "StopAsyncIteration"]

\* analyze_anr_async: `except asyncio.CancelledError: await self._cleanup(); raise`
ExceptCancelledError(r) ==
    [r EXCEPT !.pc = "cleanup", !.signal = "CancelledError",
              !.raised = EngineRaise("CancelledError")]

\* An `except Exception` handler that logs and asks the provider again for the
\* same chunk.
ExceptExceptionRetried(r) == [r EXCEPT !.pc = "boundary"]

\* analyze_anr_async: `except Exception as e: logger.error(...); raise`
ExceptException(r) ==
    [r EXCEPT !.pc = "cleanup", !.signal = "ProviderException",
              !.raised = EngineRaise("ProviderException")]

\* The events around the text of a provider stream: the messages stream read by
\* analyze_anr_async opens and closes with events that are not
\* content_block_delta; ai_stream() of the StreamingAnalyzer yields text only.
ControlEvents(analyzer) == IF analyzer = "anr" THEN 1 ELSE 0

\* analyze_anr_async: `stream = await self._client.messages.create(...)`;
\* the provider answers with a stream or raises
AnalyzerOpen(a) ==
    /\ an[a].pc = "boundary"
    /\ ~EngineBoundaryCheck(tokenObjs, an[a].tok)
    /\ \/ \E h \in 0..1, f \in 0..(MaxFrags - an[a].chunk_count), t \in 0..1 :
             /\ h = ControlEvents(an[a].analyzer) /\ t = h
             /\ an' = [an EXCEPT ![a].pc = "open", ![a].head = h, ![a].frags = f,
                                 ![a].tail = t,
                                 ![a].streams = Append(@, an[a].chunk),
                                 ![a].flagAtStart =
                                     IF an[a].chunk = 1
                                     THEN tokenObjs[an[a].tok].is_cancelled ELSE @,
                                 ![a].flagAtLast = tokenObjs[an[a].tok].is_cancelled]
       \/ an' = [an EXCEPT ![a] =
                     ExceptException([@ EXCEPT !.streams = Append(@, an[a].chunk)])]
    /\ UNCHANGED <<regVars, otherVars>>

\* The text fragments a stream may carry: the streaming analyzer counts their
\* characters, analyze_anr_async forwards them unread.
FragLensOf(analyzer) == IF analyzer = "streaming" THEN FragLens ELSE {MaxFragLen}

StreamLeft(r) == r.head + r.frags + r.tail

\* The text of the next fragment the provider generates: each fragment is a
\* text of its own, told from every other by its place in the provider's output.
NextText(output) == <<Len(output) + 1>>

\* analyze_anr_async: one event of the stream: the token is checked first, a
\* content_block_delta is yielded, any other event is skipped
AnrEvent(a) ==
    /\ an[a].pc = "open"
    /\ an[a].analyzer = "anr"
    /\ StreamLeft(an[a]) > 0
    /\ IF check_cancelled_async(tokenObjs, an[a].tok)
       THEN an' = [an EXCEPT ![a] =
                      ExceptCancelledError([@ EXCEPT !.detected = an[a].chunk])]
       ELSE IF an[a].head > 0
            THEN an' = [an EXCEPT ![a].head = @ - 1]
            ELSE IF an[a].frags > 0
                 THEN \E len \in FragLensOf(an[a].analyzer) :
                         an' = [an EXCEPT ![a].frags = @ - 1, ![a].frag = len,
                                          ![a].text = NextText(an[a].output),
                                          ![a].output = @ \o NextText(an[a].output),
                                          ![a].pc = "yielded"]
                 ELSE an' = [an EXCEPT ![a].tail = @ - 1]
    /\ UNCHANGED <<regVars, otherVars>>

\* stream_with_cancellation: one chunk of ai_stream(): the characters are
\* counted, the token is checked when the interval is reached, the chunk is yielded
StreamingChunk(a) ==
    /\ an[a].pc = "open"
    /\ an[a].analyzer = "streaming"
    /\ an[a].frags > 0
    /\ \E len \in FragLens :
          LET chars == an[a].chars_since_check + len IN
          IF CheckDue(chars, len)
          THEN IF check_cancelled_async(tokenObjs, an[a].tok)
               THEN an' = [an EXCEPT ![a].pc = "cleanup",
                                     ![a].signal = "CancelledError",
                                     ![a].raised = EngineRaise("CancelledError"),
                                     ![a].detected = an[a].chunk,
                                     ![a].output = @ \o NextText(an[a].output),
                                     ![a].chars_since_check = chars]
               ELSE an' = [an EXCEPT ![a].frags = @ - 1, ![a].frag = len,
                                     ![a].text = NextText(an[a].output),
                                     ![a].output = @ \o NextText(an[a].output),
                                     ![a].chars_since_check = 0, ![a].pc = "yielded"]
          ELSE an' = [an EXCEPT ![a].frags = @ - 1, ![a].frag = len,
                                ![a].text = NextText(an[a].output),
                                ![a].output = @ \o NextText(an[a].output),
                                ![a].chars_since_check = chars, ![a].pc = "yielded"]
    /\ UNCHANGED <<regVars, otherVars>>

\* The provider raises while the stream is consumed: `except Exception: raise`
ProviderError(a) ==
    /\ an[a].pc = "open"
    /\ StreamLeft(an[a]) > 0
    /\ an' = [an EXCEPT ![a] = ExceptException(@)]
    /\ UNCHANGED <<regVars, otherVars>>

\* generate(): the chunk received from the engine is sent as a content event,
\* chunk_count is advanced and, when get_status() has 'api_usage', a progress
\* event follows
EmitContent(a) ==
    /\ an[a].pc = "yielded"
    /\ LET r == an[a]
           late == tokenObjs[r.tok].is_cancelled
           evs == Append(r.events, [ContentEvent(r.chunk, r.frag) EXCEPT !.content = r.text])
       IN an' = [an EXCEPT
                    ![a].pc = "open",
                    ![a].chunk_count = @ + 1,
                    ![a].events = IF r.has_usage
                                  THEN Append(evs, ProgressEvent(r.chunk, r.chunk_count + 1))
                                  ELSE evs,
                    ![a].flagAtLast = late,
                    ![a].lateChars = IF late THEN @ + r.frag ELSE @,
                    ![a].lateFirst = IF late /\ r.lateChars = 0 THEN r.frag ELSE @]
    /\ UNCHANGED <<regVars, otherVars>>

\* A loop over the chunks that does not advance: the same chunk is streamed again.
NextChunkSame(chunk) == chunk

\* Coordinator step 3: the chunks are taken one after the other, in order
NextChunk(chunk) == chunk + 1

\* The provider stream of the chunk is exhausted: the engine goes on to the next
\* chunk, or its generator ends after the last one.
StreamEnd(a) ==
    /\ an[a].pc = "open"
    /\ StreamLeft(an[a]) = 0
    /\ IF an[a].chunk < an[a].total
       THEN an' = [an EXCEPT ![a].pc = "boundary", ![a].chunk = NextChunk(@)]
       ELSE an' = [an EXCEPT ![a].pc = "cleanup", ![a].raised = "StopAsyncIteration",
                             ![a].flagAtEnd = tokenObjs[an[a].tok].is_cancelled]
    /\ UNCHANGED <<regVars, otherVars>>

\* Budget enforcement: at a chunk boundary the accumulated cost is found above
\* the request's ceiling; the engine raises instead of opening the next stream
EngineBudgetExceeded(a) ==
    /\ an[a].pc = "boundary"
    /\ an[a].chunk > 1
    /\ an' = [an EXCEPT ![a].pc = "cleanup", ![a].raised = "BudgetExceededException"]
    /\ UNCHANGED <<regVars, otherVars>>

\* Wall-clock timeout of the mode: the elapsed time is found above it while a
\* stream is consumed; the engine aborts the stream and raises
EngineTimeout(a) ==
    /\ an[a].pc = "open"
    /\ StreamLeft(an[a]) > 0
    /\ an' = [an EXCEPT ![a].pc = "cleanup", ![a].raised = "AnalysisTimeoutException"]
    /\ UNCHANGED <<regVars, otherVars>>

\* Coordinator step 5: the token is removed from the registry on every path
\* out of the engine, before generate() sees the outcome
EngineCleanup(a) ==
    /\ an[a].pc = "cleanup"
    /\ LockFree(_lock)
    /\ _tokens' = RemoveToken(_tokens, tokenObjs, an[a].id)
    /\ an' = [an EXCEPT ![a].pc = "terminal"]
    /\ UNCHANGED <<clock, tokenObjs, _lock, req, opsDone, wins, otherVars>>

\* generate(): the terminal event for the outcome, then `finally: loop.close()`
GenTerminal(a) ==
    /\ an[a].pc = "terminal"
    /\ LET cancelled == an[a].tok # NoToken /\ tokenObjs[an[a].tok].is_cancelled
           type == TerminalOf(an[a].raised, cancelled)
           last == IF type = "error" THEN ErrorEvent(an[a].raised)
                   ELSE TerminalEvent(type)
       IN IF type = "none"
          THEN an' = [an EXCEPT ![a].pc = "closed", ![a].thrown = an[a].raised]
          ELSE an' = [an EXCEPT ![a].pc = "closed", ![a].events = Append(@, last)]
    /\ UNCHANGED <<regVars, otherVars>>

(* -------------------------------- client ------------------------------- *)
IdleClient ==
    [pc |-> "idle", isAnalyzing |-> FALSE, eventSource |-> "null",
     content |-> <<>>, received |-> 0, last |-> "none"]

\* An appendContent that assigns the fragment instead of appending it.
appendContentAssign(acc, content) == content

\* appendContent: `AppState.analysisResults.content += content`
appendContent(acc, content) == acc \o content

\* stopAnalysis: the EventSource is closed and dropped, isAnalyzing is false
stopAnalysis(cl) ==
    [cl EXCEPT !.eventSource = IF @ = "open" THEN "closed" ELSE @,
               !.isAnalyzing = FALSE]

\* completeAnalysis: isAnalyzing is false, then stopAnalysis
completeAnalysis(cl) == stopAnalysis([cl EXCEPT !.isAnalyzing = FALSE])

\* A handleSSEMessage without the 'cancelled' case.
handleSSEMessageNoCancelled(cl, data) ==
    CASE data.type = "content" ->
            [cl EXCEPT !.content = appendContent(@, data.content)]
      [] data.type = "complete" -> completeAnalysis(cl)
      [] data.type = "error" -> stopAnalysis(cl)
      [] OTHER -> cl

\* handleSSEMessage: the switch on data.type
handleSSEMessage(cl, data) ==
    CASE data.type = "content" ->
            [cl EXCEPT !.content = appendContent(@, data.content)]
      [] data.type = "complete" -> completeAnalysis(cl)
      [] data.type \in {"cancelled", "error"} -> stopAnalysis(cl)
      [] OTHER -> cl

\* startAnalysis up to the POST: isAnalyzing is set and the results are reset
startAnalysis(a) ==
    /\ client[a].pc = "idle"
    /\ ~client[a].isAnalyzing
    /\ an[a].pc = "idle"
    /\ client' = [client EXCEPT ![a] = [IdleClient EXCEPT !.pc = "posting",
                                                          !.isAnalyzing = TRUE]]
    /\ UNCHANGED <<regVars, an, chunker, large, page, browser>>

\* startAnalysis after the POST is answered: connectSSE opens the EventSource,
\* or analyzeWithCancellation has thrown on `!response.ok` and the catch block
\* calls stopAnalysis
connectSSE(a) ==
    /\ client[a].pc = "posting"
    /\ an[a].http # 0
    /\ client' = [client EXCEPT ![a] =
                     IF ResponseOk(an[a].http)
                     THEN [@ EXCEPT !.pc = "streaming", !.eventSource = "open"]
                     ELSE [stopAnalysis(@) EXCEPT !.pc = "idle"]]
    /\ UNCHANGED <<regVars, an, chunker, large, page, browser>>

\* EventSource.onmessage: the next event of the stream reaches handleSSEMessage
onmessage(a) ==
    /\ client[a].eventSource = "open"
    /\ client[a].received < Len(an[a].events)
    /\ LET data == an[a].events[client[a].received + 1]
           cl == [client[a] EXCEPT !.received = @ + 1, !.last = data.type]
       IN client' = [client EXCEPT ![a] = handleSSEMessage(cl, data)]
    /\ UNCHANGED <<regVars, an, chunker, large, page, browser>>

\* EventSource.onerror: the connection fails, or the stream has ended and the
\* EventSource finds it closed; the handler calls stopAnalysis
onerror(a) ==
    /\ client[a].eventSource = "open"
    /\ client' = [client EXCEPT ![a] = [stopAnalysis(@) EXCEPT !.last = "onerror"]]
    /\ UNCHANGED <<regVars, an, chunker, large, page, browser>>

(* ------------------------------- chunker ------------------------------- *)
Modes == {"quick", "intelligent", "large_file", "max_token"}

\* analysis_modes.<mode>.chunk_size
chunk_size(mode) ==
    CASE mode = "quick" -> 50000
      [] mode = "intelligent" -> 150000
      [] mode = "large_file" -> 200000
      [] mode = "max_token" -> 180000

\* Content lengths around the configured chunk sizes.
ScenarioLens == {49999, 50000, 50001, 200000, 400000, 500000}

\* A range that stops at the last whole step.
RangeWholeSteps(start, stop, step) ==
    LET n == IF stop > start THEN (stop - start) \div step ELSE 0
    IN [k \in 1..n |-> start + (k - 1) * step]

\* Python range(start, stop, step), step > 0, as the sequence of its values
Range(start, stop, step) ==
    LET n == IF stop > start THEN (stop - start + step - 1) \div step ELSE 0
    IN [k \in 1..n |-> start + (k - 1) * step]

\* A slice whose bounds are not clamped to the content.
SliceUnclamped(len, lo, hi) == [start |-> lo, stop |-> hi]

\* Python content[lo:hi] on a content of len characters: the bounds are
\* clamped to the content; the slice holds the characters start+1 .. stop
Slice(len, lo, hi) == [start |-> Min(lo, len), stop |-> Min(hi, len)]

\* split_log(content, chunk_size) on a content of len characters
split_log(len, size) ==
    LET starts == Range(0, len, size)
    IN [k \in 1..Len(starts) |-> Slice(len, starts[k], starts[k] + size)]

IdleChunker ==
    [pc |-> "idle", mode |-> "none", content_len |-> 0, chunk_size |-> 1,
     chunks |-> <<>>]

\* split_log is called: with a mode's configured chunk size, or with a size
\* of the caller's choice
ChunkerCall ==
    /\ chunker.pc = "idle"
    /\ \/ \E len \in 0..MaxContentLen, size \in 1..MaxChunkSize :
             chunker' = [IdleChunker EXCEPT !.pc = "called", !.mode = "custom",
                                            !.content_len = len, !.chunk_size = size]
       \/ \E len \in ScenarioLens, mode \in Modes :
             chunker' = [IdleChunker EXCEPT !.pc = "called", !.mode = mode,
                                            !.content_len = len,
                                            !.chunk_size = chunk_size(mode)]
    /\ UNCHANGED <<regVars, an, client, large, page, browser>>

\* split_log returns its list of chunks
ChunkerSplit ==
    /\ chunker.pc = "called"
    /\ chunker' = [chunker EXCEPT !.pc = "done",
                       !.chunks = split_log(chunker.content_len, chunker.chunk_size)]
    /\ UNCHANGED <<regVars, an, client, large, page, browser>>

(* ------------------------- analyze_large_file -------------------------- *)
\* analysis_modes.large_file.parallel_chunks
parallel_chunks == 3

\* Content lengths for analyze_large_file: whole numbers of chunks, and the
\* 500,000 characters of the scenario.
LargeLens == {k * chunk_size("large_file") : k \in 1..MaxLargeChunks} \cup {500000}

IdleLarge ==
    [pc |-> "idle", content_len |-> 0, chunks |-> <<>>, tasks |-> <<>>,
     results |-> <<>>, events |-> <<>>]

\* analyze_large_file(content): `chunks = split_into_chunks(content)`
LargeFileCall ==
    /\ large.pc = "idle"
    /\ \E len \in LargeLens :
          large' = [IdleLarge EXCEPT !.pc = "creating", !.content_len = len,
                       !.chunks = split_log(len, chunk_size("large_file"))]
    /\ UNCHANGED <<regVars, an, chunker, client, page, browser>>

\* The loop body: `task = asyncio.create_task(analyze_chunk(chunk))` for the
\* next chunk; after the last chunk the function awaits gather(*tasks). The
\* loop has no await, so no task runs before the gather.
LargeFileCreateTask ==
    /\ large.pc = "creating"
    /\ IF Len(large.tasks) < Len(large.chunks)
       THEN large' = [large EXCEPT !.tasks = Append(@, "pending")]
       ELSE large' = [large EXCEPT !.pc = "gathering"]
    /\ UNCHANGED <<regVars, an, chunker, client, page, browser>>

\* A task gets to run: analyze_chunk asks the provider for its chunk.
LargeFileTaskStart(k) ==
    /\ large.pc = "gathering"
    /\ k \in 1..Len(large.tasks)
    /\ large.tasks[k] = "pending"
    /\ large' = [large EXCEPT !.tasks[k] = "streaming"]
    /\ UNCHANGED <<regVars, an, chunker, client, page, browser>>

\* The provider's answer for a chunk is complete: the task returns its result.
LargeFileTaskDone(k) ==
    /\ large.pc = "gathering"
    /\ k \in 1..Len(large.tasks)
    /\ large.tasks[k] = "streaming"
    /\ large' = [large EXCEPT !.tasks[k] = "done", !.results = Append(@, k)]
    /\ UNCHANGED <<regVars, an, chunker, client, page, browser>>

\* `results = await asyncio.gather(*tasks)` returns the results in the order of
\* the tasks, and merge_results(results) is the text given out, chunk by chunk.
LargeFileGather ==
    /\ large.pc = "gathering"
    /\ \A k \in 1..Len(large.tasks) : large.tasks[k] = "done"
    /\ large' = [large EXCEPT !.pc = "done",
                     !.events = [k \in 1..Len(large.tasks) |->
                                     ContentEvent(k, large.chunks[k].stop - large.chunks[k].start)]]
    /\ UNCHANGED <<regVars, an, chunker, client, page, browser>>

(* --------------------------- specifications ---------------------------- *)
(* ------------------------ the web page in detail ----------------------- *)
\* AppState with the startAnalysis calls that are suspended at an await, the
\* EventSource objects those calls constructed and, for every answered POST,
\* the event stream generate() writes.

\* AppState.analysisId before any analysis and after clearAll
NoAnalysisId == <<>>

\* generate: `analysis_id = str(uuid.uuid4())`, one per POST the server answers
uuid4(s) == <<"uuid4", s>>

\* generateAnalysisId: the client's own 'xxxxxxxx-xxxx-4xxx-yxxx-xxxxxxxxxxxx'
\* filled from Math.random(), one per call of analyzeWithCancellation
generateAnalysisId(k) == <<"generateAnalysisId", k>>

\* analyzeWithCancellation: `response.headers.get('X-Analysis-ID') ||
\* generateAnalysisId()`; the endpoint's Response sets the headers
\* Cache-Control, X-Accel-Buffering and Connection only, so get() returns null
analysisIdOfResponse(k, s) == generateAnalysisId(k)

\* AppState.settings.maxHistoryItems as the page is loaded
maxHistoryItems == 10

\* What appSettings in local storage may set maxHistoryItems to
HistoryLimits == (1..MaxHistoryLimit) \cup {maxHistoryItems}

PageEvent(type, id) == [type |-> type, analysis_id |-> id]

IdlePage ==
    [currentFile |-> FALSE, analysisId |-> NoAnalysisId, eventSource |-> 0,
     isAnalyzing |-> FALSE, content |-> 0,
     calls |-> <<>>, sources |-> <<>>, streams |-> <<>>, sent |-> <<>>,
     settings |-> [saveHistory |-> TRUE, maxHistoryItems |-> maxHistoryItems],
     history |-> <<>>, runs |-> 0, ended |-> "none"]

PageCalls == 1..Len(page.calls)
PageSources == 1..Len(page.sources)
PageStreams == 1..Len(page.streams)
IsOpen(p, e) == e # 0 /\ p.sources[e].readyState = "open"
PageContentsOf(events) ==
    Cardinality({i \in 1..Len(events) : events[i].type = "content"})
StreamEnded(events) == Len(events) > 0 /\ events[Len(events)].type \in TerminalTypes

\* stopAnalysis: `if (AppState.eventSource) { close(); AppState.eventSource =
\* null }`, then isAnalyzing is false
page_stopAnalysis(p) ==
    [p EXCEPT !.sources = IF p.eventSource # 0
                          THEN [@ EXCEPT ![p.eventSource].readyState = "closed"]
                          ELSE @,
              !.eventSource = 0,
              !.isAnalyzing = FALSE]

\* A saveToHistory that keeps every item.
saveToHistoryUntrimmed(p) ==
    IF p.currentFile
    THEN [p EXCEPT !.history = <<p.analysisId>> \o @]
    ELSE p

\* saveToHistory: the list of local storage gets the new item by unshift and
\* is cut to settings.maxHistoryItems; with currentFile null the item's
\* `AppState.currentFile.name` throws a TypeError before anything is stored
saveToHistory(p) ==
    IF p.currentFile
    THEN LET history == <<p.analysisId>> \o p.history
         IN [p EXCEPT !.history =
                IF Len(history) > p.settings.maxHistoryItems
                THEN SubSeq(history, 1, p.settings.maxHistoryItems)
                ELSE history]
    ELSE p

\* completeAnalysis: isAnalyzing is false, then stopAnalysis, then
\* `if (AppState.settings.saveHistory) saveToHistory()`
page_completeAnalysis(p) ==
    LET stopped == page_stopAnalysis([p EXCEPT !.isAnalyzing = FALSE])
    IN IF p.settings.saveHistory THEN saveToHistory(stopped) ELSE stopped

\* handleSSEMessage: the switch on data.type; 'start' updates the id shown in
\* the page (UIController.updateAnalysisId) and leaves AppState alone
page_handleSSEMessage(p, data) ==
    CASE data.type = "content" -> [p EXCEPT !.content = @ + 1]
      [] data.type = "complete" -> page_completeAnalysis(p)
      [] data.type \in {"cancelled", "error"} -> page_stopAnalysis(p)
      [] OTHER -> p

\* loadSettings, called by initializeApp before any analysis: the settings
\* saved under appSettings replace the defaults
page_loadSettings ==
    /\ page.runs = 0
    /\ \E save \in BOOLEAN, limit \in HistoryLimits :
        page' = [page EXCEPT !.settings = [saveHistory |-> save,
                                           maxHistoryItems |-> limit]]
    /\ UNCHANGED <<regVars, an, chunker, client, large, browser>>

\* One analysis that runs alone, from the guard of startAnalysis to the
\* handler that ends it: the handler of its terminal event, the onerror
\* handler of its EventSource, or the catch block of startAnalysis
page_analysisRun ==
    /\ page.runs < MaxRuns
    /\ page.currentFile
    /\ ~page.isAnalyzing
    /\ page.calls = <<>>
    /\ \E end \in TerminalTypes \cup {"onerror", "catch"} :
        LET p == [page EXCEPT !.runs = @ + 1,
                              !.ended = end,
                              !.isAnalyzing = TRUE,
                              !.content = 0,
                              !.analysisId = generateAnalysisId(page.runs + 1)]
        IN page' = IF end \in TerminalTypes
                   THEN page_handleSSEMessage(p, PageEvent(end, NoAnalysisId))
                   ELSE page_stopAnalysis(p)
    /\ UNCHANGED <<regVars, an, chunker, client, large, browser>>

\* processFile: a valid file is chosen, `AppState.currentFile = file`
page_processFile ==
    /\ ~page.currentFile
    /\ page' = [page EXCEPT !.currentFile = TRUE]
    /\ UNCHANGED <<regVars, an, chunker, client, large, browser>>

\* startAnalysis up to its first await (Analyze button or Ctrl/Cmd+Enter):
\* `if (!AppState.currentFile || AppState.isAnalyzing) return`, then the call
\* is suspended in `await FileHandler.readFileContent(...)`
page_startAnalysis ==
    /\ Len(page.calls) < MaxStarts
    /\ page.currentFile
    /\ ~page.isAnalyzing
    /\ page' = [page EXCEPT !.calls = Append(@, [pc |-> "reading"])]
    /\ UNCHANGED <<regVars, an, chunker, client, large, browser>>

\* startAnalysis from the file's content to its second await: isAnalyzing is
\* set, analysisResults is reset and fetch() sends the POST. When the
\* FileReader fails (`reader.onerror = reject`) the await throws outside the
\* try block and the call ends there.
page_readFileContent(k) ==
    /\ page.calls[k].pc = "reading"
    /\ \E read \in BOOLEAN :
        IF read
        THEN page' = [page EXCEPT !.calls[k].pc = "posting",
                                  !.isAnalyzing = TRUE,
                                  !.content = 0]
        ELSE page' = [page EXCEPT !.calls[k].pc = "failed"]
    /\ UNCHANGED <<regVars, an, chunker, client, large, browser>>

\* startAnalysis after the POST is answered. With response.ok the server has
\* begun a stream under its own uuid4; analyzeWithCancellation returns, the
\* call assigns AppState.analysisId and connectSSE assigns a new EventSource
\* to AppState.eventSource. Otherwise analyzeWithCancellation throws and the
\* catch block calls stopAnalysis.
page_analyzeWithCancellation(k) ==
    /\ page.calls[k].pc = "posting"
    /\ \E ok \in BOOLEAN :
        IF ok
        THEN LET s == Len(page.streams) + 1
                 e == Len(page.sources) + 1
             IN page' = [page EXCEPT
                    !.calls[k].pc = "done",
                    !.streams = Append(@, <<>>),
                    !.analysisId = analysisIdOfResponse(k, s),
                    !.sources = Append(@, [readyState |-> "open", stream |-> s,
                                           received |-> 0, last |-> "none"]),
                    !.eventSource = e]
        ELSE page' = [page_stopAnalysis(page) EXCEPT !.calls[k].pc = "failed"]
    /\ UNCHANGED <<regVars, an, chunker, client, large, browser>>

\* generate() writes the next event of a stream: the start event with its
\* analysis_id, then content events, then one terminal event
page_generate(s) ==
    /\ ~StreamEnded(page.streams[s])
    /\ \E type \in {"content"} \cup TerminalTypes :
        /\ type = "content" => PageContentsOf(page.streams[s]) < MaxPageContents
        /\ page' = [page EXCEPT !.streams[s] =
                       IF Len(@) = 0
                       THEN <<PageEvent("start", uuid4(s))>>
                       ELSE Append(@, PageEvent(type, NoAnalysisId))]
    /\ UNCHANGED <<regVars, an, chunker, client, large, browser>>

\* onmessage of one EventSource object: the next event of its stream reaches
\* handleSSEMessage, which acts on AppState
page_onmessage(e) ==
    /\ page.sources[e].readyState = "open"
    /\ page.sources[e].received < Len(page.streams[page.sources[e].stream])
    /\ LET data == page.streams[page.sources[e].stream][page.sources[e].received + 1]
           p == [page EXCEPT !.sources[e].received = @ + 1,
                             !.sources[e].last = data.type]
       IN page' = page_handleSSEMessage(p, data)
    /\ UNCHANGED <<regVars, an, chunker, client, large, browser>>

\* onerror of one EventSource object: the connection fails, or the stream has
\* ended and the EventSource finds it closed; the handler calls stopAnalysis
page_onerror(e) ==
    /\ page.sources[e].readyState = "open"
    /\ page' = page_stopAnalysis([page EXCEPT !.sources[e].last = "onerror"])
    /\ UNCHANGED <<regVars, an, chunker, client, large, browser>>

\* cancelAnalysis (Cancel button or Escape): `if (!AppState.analysisId ||
\* !AppState.isAnalyzing) return`, then the cancel request carries
\* AppState.analysisId. `stream` remembers which stream AppState.eventSource
\* was reading when the request left.
page_cancelAnalysis ==
    /\ Len(page.sent) < MaxPageCancels
    /\ page.analysisId # NoAnalysisId
    /\ page.isAnalyzing
    /\ page' = [page EXCEPT !.sent = Append(@,
                   [analysisId |-> page.analysisId,
                    stream |-> IF IsOpen(page, page.eventSource)
                               THEN page.sources[page.eventSource].stream
                               ELSE 0])]
    /\ UNCHANGED <<regVars, an, chunker, client, large, browser>>

\* clearAll (Clear button or Ctrl/Cmd+N): currentFile and analysisId are null
\* and analysisResults is reset; nothing is stopped
page_clearAll ==
    /\ page' = [page EXCEPT !.currentFile = FALSE,
                            !.analysisId = NoAnalysisId,
                            !.content = 0]
    /\ UNCHANGED <<regVars, an, chunker, client, large, browser>>

(* --------------------------- ApiClient.request ------------------------- *)
\* Each call of ApiClient.request: its position, its timer, the signal of its
\* AbortController, the status of the response and how the call settled.
Requests == 1..NumRequests
Statuses == {200, 404, 500}

\* Response.ok
response_ok(status) == status \in 200..299

IdleRequest ==
    [pc |-> "idle", timer |-> "none", aborted |-> FALSE, status |-> 0,
     outcome |-> "none", settles |-> 0]

IdleBrowser ==
    [requests |-> [q \in Requests |-> IdleRequest],
     charts |-> [c \in 1..NumCanvases |-> 0],
     chartObjs |-> <<>>,
     canvases |-> {},
     returned |-> [op |-> "none", canvasId |-> 0, chart |-> 0],
     now |-> 0,
     debounce |-> [timeout |-> 0, timers |-> {}, calls |-> <<>>, invoked |-> <<>>],
     throttle |-> [inThrottle |-> FALSE, timers |-> {}, calls |-> <<>>,
                   invoked |-> <<>>]]

\* A clearTimeout that leaves the timer armed.
clearTimeoutSkipped(q) == q

\* clearTimeout(timeoutId): a timer that has not fired yet never fires
clearTimeout(q) == [q EXCEPT !.timer = IF @ = "armed" THEN "cleared" ELSE @]

\* The call returns or throws: the promise of request() settles
Settle(q, outcome) ==
    [q EXCEPT !.pc = "settled", !.outcome = outcome, !.settles = @ + 1]

\* The catch block: clearTimeout, then an AbortError becomes 'Request
\* timeout' and any other error is thrown on
request_catch(q, error) ==
    Settle(clearTimeout(q), IF error = "AbortError" THEN "Request timeout" ELSE error)

\* request() up to `await fetch(url, config)`: the timer is set and its
\* controller's signal goes into the fetch
request_call(q) ==
    /\ browser.requests[q].pc = "idle"
    /\ browser' = [browser EXCEPT !.requests[q] =
                       [@ EXCEPT !.pc = "fetching", !.timer = "armed"]]
    /\ UNCHANGED <<regVars, an, chunker, client, large, page>>

\* The timer callback after this.timeout: `controller.abort()`
request_abort(q) ==
    /\ browser.requests[q].timer = "armed"
    /\ browser' = [browser EXCEPT !.requests[q] =
                       [@ EXCEPT !.timer = "fired", !.aborted = TRUE]]
    /\ UNCHANGED <<regVars, an, chunker, client, large, page>>

\* fetch resolves with a response: clearTimeout, then the body is read
request_response(q) ==
    /\ browser.requests[q].pc = "fetching"
    /\ ~browser.requests[q].aborted
    /\ \E status \in Statuses :
        browser' = [browser EXCEPT !.requests[q] =
                       [clearTimeout(@) EXCEPT !.pc = "reading", !.status = status]]
    /\ UNCHANGED <<regVars, an, chunker, client, large, page>>

\* fetch rejects: with an AbortError when the signal is aborted, with a
\* TypeError when the network fails
request_rejected(q) ==
    /\ browser.requests[q].pc = "fetching"
    /\ browser' = [browser EXCEPT !.requests[q] =
                       request_catch(@, IF @.aborted THEN "AbortError" ELSE "TypeError")]
    /\ UNCHANGED <<regVars, an, chunker, client, large, page>>

\* response.json() settles. A non-OK response throws the body's message, or
\* 'HTTP <status>' when the body has none or cannot be read (`.catch(() =>
\* ({}))`); an OK response returns the body, or throws what json() threw:
\* an AbortError if the signal was aborted meanwhile, else a SyntaxError
request_json(q) ==
    /\ browser.requests[q].pc = "reading"
    /\ \E body \in {"json", "json with message", "not json"} :
        LET r == browser.requests[q]
            read == IF r.aborted THEN "AbortError"
                    ELSE IF body = "not json" THEN "SyntaxError" ELSE body
        IN browser' = [browser EXCEPT !.requests[q] =
               IF ~response_ok(r.status)
               THEN request_catch(r, IF read = "json with message"
                                     THEN "server message" ELSE "HTTP status")
               ELSE IF read \in {"json", "json with message"}
                    THEN Settle(r, "parsed JSON body")
                    ELSE request_catch(r, read)]
    /\ UNCHANGED <<regVars, an, chunker, client, large, page>>

(* ----------------------------- ChartManager ---------------------------- *)
\* browser.charts is ChartManager.charts, canvas id -> Chart object (0 when
\* the key is absent); browser.chartObjs holds every Chart object ever
\* constructed, by identity; browser.canvases is the canvas elements the
\* document has; browser.returned is the last call and what it returned.
CanvasIds == 1..NumCanvases

\* A destroyChart that deletes the key and leaves the Chart alive.
destroyChartKept(b, canvasId) ==
    IF b.charts[canvasId] # 0
    THEN [b EXCEPT !.charts[canvasId] = 0]
    ELSE b

\* destroyChart: `if (this.charts[canvasId]) { destroy(); delete ... }`
destroyChart(b, canvasId) ==
    IF b.charts[canvasId] # 0
    THEN [b EXCEPT !.chartObjs[b.charts[canvasId]].destroyed = TRUE,
                   !.charts[canvasId] = 0]
    ELSE b

\* destroyAllCharts: destroyChart for every key of the registry
RECURSIVE destroyEach(_, _)
destroyEach(b, ids) ==
    IF ids = {} THEN b
    ELSE LET canvasId == CHOOSE c \in ids : TRUE
         IN destroyEach(destroyChart(b, canvasId), ids \ {canvasId})

destroyAllCharts(b) == destroyEach(b, {c \in CanvasIds : b.charts[c] # 0})

\* The document gains or loses a canvas element
chart_canvas(canvasId) ==
    /\ browser' = [browser EXCEPT !.canvases =
                       IF canvasId \in @ THEN @ \ {canvasId} ELSE @ \cup {canvasId}]
    /\ UNCHANGED <<regVars, an, chunker, client, large, page>>

\* createTokenChart and the other create* methods: null for a missing
\* canvas; else destroyChart(canvasId), then a new Chart is registered
chart_create(canvasId) ==
    /\ Len(browser.chartObjs) < MaxCharts
    /\ IF canvasId \notin browser.canvases
       THEN browser' = [browser EXCEPT !.returned =
                           [op |-> "create", canvasId |-> canvasId, chart |-> 0]]
       ELSE LET b == destroyChart(browser, canvasId)
                chart == Len(b.chartObjs) + 1
            IN browser' = [b EXCEPT
                   !.chartObjs = Append(@, [canvasId |-> canvasId, destroyed |-> FALSE,
                                            updates |-> 0]),
                   !.charts[canvasId] = chart,
                   !.returned = [op |-> "create", canvasId |-> canvasId, chart |-> chart]]
    /\ UNCHANGED <<regVars, an, chunker, client, large, page>>

\* updateChart: the registered chart gets the new data and is redrawn
chart_update(canvasId) ==
    /\ browser.charts[canvasId] # 0
    /\ browser.chartObjs[browser.charts[canvasId]].updates = 0
    /\ browser' = [browser EXCEPT
           !.chartObjs[browser.charts[canvasId]].updates = 1,
           !.returned = [op |-> "update", canvasId |-> canvasId, chart |-> 0]]
    /\ UNCHANGED <<regVars, an, chunker, client, large, page>>

chart_destroy(canvasId) ==
    /\ browser' = [destroyChart(browser, canvasId) EXCEPT !.returned =
                       [op |-> "destroy", canvasId |-> canvasId, chart |-> 0]]
    /\ UNCHANGED <<regVars, an, chunker, client, large, page>>

chart_destroyAll ==
    /\ browser' = [destroyAllCharts(browser) EXCEPT !.returned =
                       [op |-> "destroyAll", canvasId |-> 0, chart |-> 0]]
    /\ UNCHANGED <<regVars, an, chunker, client, large, page>>

(* ------------------------- debounce and throttle ----------------------- *)
\* browser.now is the clock the timers run on. A timer set with delay d at
\* time t has `due` t + d: it fires at `due` or later, never before.
\* browser.debounce is one function made by debounce(func, wait): `timeout`
\* is its closure variable (a timer id, 0 while undefined), `timers` the
\* timers it has set and that are neither fired nor cleared, `calls` the
\* calls of the debounced function and `invoked` the calls of func.
Args == 1..NumArgs

\* The clock advances
timer_tick ==
    /\ browser.now < MaxTime
    /\ browser' = [browser EXCEPT !.now = @ + 1]
    /\ UNCHANGED <<regVars, an, chunker, client, large, page>>

\* A clearTimeout that clears nothing.
clearTimerSkipped(timers, id) == timers

\* clearTimeout(timeout) on the timers a function has set
clearTimer(timers, id) == {t \in timers : t.id # id}

\* executedFunction(...args): `clearTimeout(timeout); timeout =
\* setTimeout(later, wait)`, where later keeps this call's args
debounced(args) ==
    /\ Len(browser.debounce.calls) < MaxCalls
    /\ LET d == browser.debounce
           id == Len(d.calls) + 1
       IN browser' = [browser EXCEPT !.debounce =
              [d EXCEPT !.timers = clearTimer(@, d.timeout)
                                     \cup {[id |-> id, due |-> browser.now + Delay,
                                            args |-> args]},
                        !.timeout = id,
                        !.calls = Append(@, [at |-> browser.now, args |-> args])]]
    /\ UNCHANGED <<regVars, an, chunker, client, large, page>>

\* later(): a timer that is due fires, `clearTimeout(timeout); func(...args)`
debounce_later ==
    /\ \E t \in browser.debounce.timers :
        /\ browser.now >= t.due
        /\ LET d == browser.debounce
           IN browser' = [browser EXCEPT !.debounce =
                  [d EXCEPT !.timers = clearTimer(@ \ {t}, d.timeout),
                            !.invoked = Append(@, [at |-> browser.now, args |-> t.args,
                                                   calls |-> Len(d.calls)])]]
    /\ UNCHANGED <<regVars, an, chunker, client, large, page>>

\* browser.throttle is one function made by throttle(func, limit):
\* `inThrottle` is its closure variable, `timers` the timers it has set and
\* that have not fired, `calls` the calls of the throttled function, each
\* with the value of inThrottle it found, and `invoked` the calls of func.

\* A throttled function that opens no window after an invocation.
throttleWindowSkipped(th, now) == th

\* `inThrottle = true; setTimeout(() => inThrottle = false, limit)`
throttleWindow(th, now) ==
    [th EXCEPT !.inThrottle = TRUE,
               !.timers = @ \cup {[id |-> Len(th.calls) + 1, due |-> now + Delay]}]

\* The throttled function: `if (!inThrottle) { func.apply(this, args); ... }`
throttled(args) ==
    /\ Len(browser.throttle.calls) < MaxCalls
    /\ LET th == browser.throttle
           call == [at |-> browser.now, args |-> args, inThrottle |-> th.inThrottle]
       IN browser' = [browser EXCEPT !.throttle =
              IF ~th.inThrottle
              THEN [throttleWindow(th, browser.now) EXCEPT
                       !.calls = Append(@, call),
                       !.invoked = Append(@, [at |-> browser.now, args |-> args,
                                              calls |-> Len(th.calls) + 1])]
              ELSE [th EXCEPT !.calls = Append(@, call)]]
    /\ UNCHANGED <<regVars, an, chunker, client, large, page>>

\* The timer callback `() => inThrottle = false`, at its due time or later
throttle_reset ==
    /\ \E t \in browser.throttle.timers :
        /\ browser.now >= t.due
        /\ browser' = [browser EXCEPT !.throttle.timers = @ \ {t},
                                      !.throttle.inThrottle = FALSE]
    /\ UNCHANGED <<regVars, an, chunker, client, large, page>>

Init ==
    /\ clock = 1
    /\ tokenObjs = <<>>
    /\ _tokens = [i \in Ids |-> NoToken]
    /\ _lock = 0
    /\ req = [c \in Callers |-> IdleReq]
    /\ opsDone = 0
    /\ wins = <<>>
    /\ an = [a \in Analyses |-> IdleAnalysis]
    /\ chunker = IdleChunker
    /\ client = [a \in Analyses |-> IdleClient]
    /\ large = IdleLarge
    /\ page = IdlePage
    /\ browser = IdleBrowser

NextRegistry ==
    \E c \in Callers :
        \/ CallCreate(c)
        \/ CallCancel(c)
        \/ Acquire(c)
        \/ create_token(c)
        \/ cancel_analysis_test(c)
        \/ cancel_analysis_apply(c)

SpecRegistry == Init /\ [][NextRegistry]_vars

Next ==
    \/ \E c \in Clients : ClientCancel(c)
    \/ \E a \in Analyses :
          \/ Request(a)
          \/ GenStart(a)
          \/ GenNoEngine(a)
          \/ GenConvert(a)
          \/ EngineBegin(a)
          \/ EngineBoundaryCancelled(a)
          \/ AnalyzerOpen(a)
          \/ AnrEvent(a)
          \/ StreamingChunk(a)
          \/ ProviderError(a)
          \/ EngineBudgetExceeded(a)
          \/ EngineTimeout(a)
          \/ EmitContent(a)
          \/ StreamEnd(a)
          \/ EngineCleanup(a)
          \/ GenTerminal(a)

Spec == Init /\ [][Next]_vars

NextClient ==
    \/ Next
    \/ \E a \in Analyses :
          \/ startAnalysis(a)
          \/ connectSSE(a)
          \/ onmessage(a)
          \/ onerror(a)

SpecClient == Init /\ [][NextClient]_vars

\* A step of generate(), the engine or the analyzer of an analysis.
AnalysisStep(a) ==
    \/ GenStart(a) \/ GenNoEngine(a) \/ GenConvert(a) \/ EngineBegin(a)
    \/ EngineBoundaryCancelled(a) \/ AnalyzerOpen(a) \/ AnrEvent(a)
    \/ StreamingChunk(a) \/ EmitContent(a) \/ StreamEnd(a)
    \/ EngineCleanup(a) \/ GenTerminal(a)

\* The server runs generate() on to its end, the POST is answered, and the
\* EventSource hands over every event it has been sent.
SpecClientLive ==
    /\ Init /\ [][NextClient]_vars
    /\ \A a \in Analyses :
          /\ WF_vars(AnalysisStep(a))
          /\ WF_vars(connectSSE(a))
          /\ WF_vars(onmessage(a))

\* A step of generate() or the engine that waits for nothing from the provider.
ServerStep(a) ==
    \/ GenStart(a) \/ GenNoEngine(a) \/ GenConvert(a) \/ EngineBegin(a)
    \/ EngineBoundaryCancelled(a) \/ EmitContent(a)
    \/ EngineCleanup(a) \/ GenTerminal(a)

\* generate() runs on to its end and the provider keeps answering: it opens
\* the stream it is asked for, yields its events and ends the stream.
SpecLive == Init /\ [][Next]_vars /\ \A a \in Analyses : WF_vars(AnalysisStep(a))

NextLargeFile ==
    \/ LargeFileCall
    \/ LargeFileCreateTask
    \/ \E k \in 1..MaxLargeChunks : LargeFileTaskStart(k) \/ LargeFileTaskDone(k)
    \/ LargeFileGather

SpecLargeFile == Init /\ [][NextLargeFile]_vars

NextPage ==
    \/ page_processFile
    \/ page_startAnalysis
    \/ \E k \in PageCalls : page_readFileContent(k)
    \/ \E k \in PageCalls : page_analyzeWithCancellation(k)
    \/ \E s \in PageStreams : page_generate(s)
    \/ \E e \in PageSources : page_onmessage(e)
    \/ \E e \in PageSources : page_onerror(e)
    \/ page_cancelAnalysis
    \/ page_clearAll

SpecPage == Init /\ [][NextPage]_vars

NextRequest ==
    \/ \E q \in Requests : request_call(q)
    \/ \E q \in Requests : request_abort(q)
    \/ \E q \in Requests : request_response(q)
    \/ \E q \in Requests : request_rejected(q)
    \/ \E q \in Requests : request_json(q)

SpecRequest == Init /\ [][NextRequest]_vars

NextCharts ==
    \/ \E c \in CanvasIds : chart_canvas(c)
    \/ \E c \in CanvasIds : chart_create(c)
    \/ \E c \in CanvasIds : chart_update(c)
    \/ \E c \in CanvasIds : chart_destroy(c)
    \/ chart_destroyAll

SpecCharts == Init /\ [][NextCharts]_vars

NextDebounce ==
    \/ timer_tick
    \/ \E args \in Args : debounced(args)
    \/ debounce_later

SpecDebounce == Init /\ [][NextDebounce]_vars

NextThrottle ==
    \/ timer_tick
    \/ \E args \in Args : throttled(args)
    \/ throttle_reset

SpecThrottle == Init /\ [][NextThrottle]_vars

NextHistory ==
    \/ page_loadSettings
    \/ page_processFile
    \/ page_analysisRun
    \/ page_clearAll

SpecHistory == Init /\ [][NextHistory]_vars

NextChunker == ChunkerCall \/ ChunkerSplit

SpecChunker == Init /\ [][NextChunker]_vars

(* ------------------------------- claims -------------------------------- *)
Closed(a) == an[a].pc = "closed"
LastOf(seq) == seq[Len(seq)]
IsTerminal(e) == e.type \in TerminalTypes
CountOf(evs, types) == Cardinality({i \in 1..Len(evs) : evs[i].type \in types})
CancelDone(c) == req[c].pc = "done" /\ req[c].op = "cancel"
CreateDone(c) == req[c].pc = "done" /\ req[c].op = "create"

\* C1: when the event stream of an analysis has ended, it holds exactly one
\* start event, as its first event, and exactly one terminal event (complete,
\* cancelled or error), as its last event.
C1_EventProtocol ==
    \A a \in Analyses :
        Closed(a) =>
            LET evs == an[a].events IN
            /\ Len(evs) >= 2
            /\ evs[1].type = "start"
            /\ CountOf(evs, {"start"}) = 1
            /\ IsTerminal(LastOf(evs))
            /\ CountOf(evs, TerminalTypes) = 1

C3_CancelReturnsTrueOnce ==
    /\ \A c \in Callers :
          CancelDone(c) =>
             /\ req[c].result = (req[c].tok # NoToken /\ ~req[c].before.is_cancelled)
             /\ req[c].result =>
                   /\ req[c].after.is_cancelled
                   /\ req[c].after.cancelled_at # None
                   /\ req[c].after.cancelled_at >= req[c].after.created_at
                   /\ tokenObjs[req[c].tok].is_cancelled
    /\ \A t \in 1..Len(tokenObjs) :
          /\ wins[t] <= 1
          /\ (wins[t] = 1) = tokenObjs[t].is_cancelled

\* Two callers have finished cancelling the same token: one got true, one false.
C3_Witness ==
    \E c1 \in Callers, c2 \in Callers :
        /\ c1 # c2 /\ CancelDone(c1) /\ CancelDone(c2)
        /\ req[c1].tok # NoToken /\ req[c1].tok = req[c2].tok
        /\ req[c1].result /\ ~req[c2].result

\* C4: a cancel call that finds the token already cancelled returns false and
\* leaves the token, its cancellation timestamp included, as the first call set it.
C4_SecondCancelNoop ==
    \A c \in Callers :
        (CancelDone(c) /\ req[c].tok # NoToken /\ req[c].before.is_cancelled) =>
            /\ ~req[c].result
            /\ req[c].after = req[c].before
            /\ tokenObjs[req[c].tok].cancelled_at = req[c].before.cancelled_at
            /\ req[c].before.cancelled_at # None

\* A second cancel has finished at a later time than the first one's timestamp.
C4_Witness ==
    \E c \in Callers :
        /\ CancelDone(c) /\ req[c].tok # NoToken /\ req[c].before.is_cancelled
        /\ clock > req[c].before.cancelled_at

\* C5: a cancel of an id with no registered token returns false as a normal
\* outcome: the answer the caller gets is not an error and nothing is logged
\* as one.
C5_NotFoundIsNormal ==
    \A c \in Callers :
        (CancelDone(c) /\ req[c].tok = NoToken) =>
            /\ ~req[c].result
            /\ ResponseOk(req[c].http)
            /\ ~req[c].logged

\* C6: the is_cancelled flag of a token object never goes back from true to false.
C6_FlagMonotonic ==
    [][\A t \in 1..Len(tokenObjs) :
          tokenObjs[t].is_cancelled =>
              /\ Len(tokenObjs') >= t
              /\ tokenObjs'[t].is_cancelled]_vars

\* A create_token has finished for an id whose previous token was cancelled.
C6_Witness ==
    \E c \in Callers :
        /\ CreateDone(c) /\ req[c].tok # NoToken
        /\ tokenObjs[req[c].tok].is_cancelled

C9_CancelLatencyBound ==
    \A a \in Analyses :
        /\ an[a].lateChars < an[a].lateFirst + check_interval
        /\ an[a].lateFirst <= MaxFragLen

\* A cancelled analysis emitted more than one fragment after the flag was set.
C9_Witness ==
    \E a \in Analyses :
        /\ Closed(a) /\ LastOf(an[a].events).type = "cancelled"
        /\ an[a].lateFirst > 0
        /\ an[a].lateChars > an[a].lateFirst

\* The last text fragment of the last chunk was emitted while the token was not
\* cancelled, and the provider has no further fragment for the analysis.
LastFragmentConsumed(a) ==
    /\ an[a].chunk = an[a].total
    /\ an[a].frags = 0
    /\ ~an[a].flagAtLast
    /\ \E i \in 1..Len(an[a].events) :
          an[a].events[i].type = "content" /\ an[a].events[i].chunk = an[a].total

OnlyContentBetween(evs) ==
    \A i \in 2..(Len(evs) - 1) : evs[i].type \in {"content", "progress"}

ContentOf(len) == [i \in 1..len |-> i]
ChunkText(content, c) == SubSeq(content, c.start + 1, c.stop)
RECURSIVE Joined(_, _)
Joined(content, chunks) ==
    IF chunks = <<>> THEN <<>>
    ELSE ChunkText(content, Head(chunks)) \o Joined(content, Tail(chunks))
ChunkLens(chunks) == [k \in 1..Len(chunks) |-> chunks[k].stop - chunks[k].start]

\* C15: for non-empty content the chunks of split_log tile the content: the
\* first starts at its first character, each starts where the one before
\* stops, the last stops at its end, none is empty or longer than chunk_size,
\* their texts joined in order are the content, and 500,000 characters with
\* chunk size 200,000 give chunks of 200,000, 200,000 and 100,000 characters.
C15_SplitCoversContent ==
    (chunker.pc = "done" /\ chunker.content_len > 0) =>
        LET cs == chunker.chunks
            n == Len(cs)
        IN
        /\ n >= 1
        /\ cs[1].start = 0
        /\ cs[n].stop = chunker.content_len
        /\ \A k \in 1..n :
              /\ cs[k].start < cs[k].stop
              /\ cs[k].stop - cs[k].start <= chunker.chunk_size
        /\ \A k \in 1..(n - 1) : cs[k].stop = cs[k + 1].start
        /\ chunker.content_len <= MaxContentLen =>
              Joined(ContentOf(chunker.content_len), cs) = ContentOf(chunker.content_len)
        /\ (chunker.content_len = 500000 /\ chunker.chunk_size = 200000) =>
              ChunkLens(cs) = <<200000, 200000, 100000>>

\* split_log has split 500,000 characters in large_file mode.
C15_Witness ==
    /\ chunker.pc = "done" /\ chunker.mode = "large_file"
    /\ chunker.content_len = 500000

\* C16 (as claimed): content no longer than the chunk size gives exactly one
\* chunk, the whole content.
C16_SingleChunk ==
    (chunker.pc = "done" /\ chunker.content_len <= chunker.chunk_size) =>
        chunker.chunks = <<[start |-> 0, stop |-> chunker.content_len]>>

\* C16 (amended): non-empty content no longer than the chunk size gives exactly
\* one chunk, the whole content; empty content gives no chunk.
C16_SingleChunkNonEmpty ==
    chunker.pc = "done" =>
        /\ (chunker.content_len > 0 /\ chunker.content_len <= chunker.chunk_size) =>
              chunker.chunks = <<[start |-> 0, stop |-> chunker.content_len]>>
        /\ chunker.content_len = 0 => chunker.chunks = <<>>

\* split_log has split a content exactly as long as the mode's chunk size.
C16_Witness ==
    /\ chunker.pc = "done" /\ chunker.mode \in Modes
    /\ chunker.content_len = chunker.chunk_size

\* The texts of the content events of a sequence of events, joined in order.
RECURSIVE ContentsOf(_)
ContentsOf(evs) ==
    IF evs = <<>> THEN <<>>
    ELSE (IF Head(evs).type = "content" THEN Head(evs).content ELSE <<>>)
         \o ContentsOf(Tail(evs))

OperationOn(b) ==
    \/ \E c \in Callers : req[c].id = b /\ req[c].pc \in {"locked", "apply"}
                          /\ req'[c].pc = "done"
    \/ \E c \in Clients : req'[c] # req[c] /\ req'[c].id = b
    \/ \E a \in Analyses : an[a].id = b /\ an'[a] # an[a]

CancelAccepted(a) == an[a].tok # NoToken /\ wins[an[a].tok] >= 1

C20_ChunksNotInterleaved ==
    \A a \in Analyses :
        LET evs == an[a].events IN
        /\ an[a].streams = [k \in 1..Len(an[a].streams) |-> k]
        /\ \A i \in 1..Len(evs), j \in 1..Len(evs) :
              (i < j /\ evs[i].type \in {"content", "progress"}
                     /\ evs[j].type \in {"content", "progress"}) =>
                  evs[i].chunk <= evs[j].chunk
        /\ \A i \in 1..Len(evs) : evs[i].chunk <= an[a].chunk

\* A completed analysis emitted content for its first and for its second chunk.
C20_Witness ==
    \E a \in Analyses :
        /\ Closed(a) /\ LastOf(an[a].events).type = "complete"
        /\ \E i \in 1..Len(an[a].events), j \in 1..Len(an[a].events) :
              /\ an[a].events[i].type = "content" /\ an[a].events[i].chunk = 1
              /\ an[a].events[j].type = "content" /\ an[a].events[j].chunk = 2

C23_EmptyContentRejected ==
    \A a \in Analyses :
        an[a].empty =>
            /\ an[a].pc = "rejected"
            /\ ~ResponseOk(an[a].http)
            /\ an[a].tok = NoToken
            /\ an[a].streams = <<>>
            /\ an[a].output = <<>>
            /\ CountOf(an[a].events, {"content"}) = 0

\* A request with empty content was answered, and no stream or event exists.
C23_Witness ==
    \E a \in Analyses :
        /\ an[a].empty /\ an[a].http # 0
        /\ an[a].streams = <<>> /\ an[a].events = <<>>

OpenTasks == {k \in 1..Len(large.tasks) : large.tasks[k] = "streaming"}

\* C25: in large_file mode no more than parallel_chunks chunks have their
\* provider request open at the same time, and the content given out for one
\* chunk is contiguous: the content events are in the order of the chunks.
C25_BoundedFanOut ==
    /\ Cardinality(OpenTasks) <= parallel_chunks
    /\ \A i \in 1..Len(large.events), j \in 1..Len(large.events) :
          i < j => large.events[i].chunk < large.events[j].chunk

RequestsInFlight == {k \in PageCalls : page.calls[k].pc = "posting"}
OpenSources == {e \in PageSources : page.sources[e].readyState = "open"}
C27_OneAnalysisInFlight ==
    /\ Cardinality(RequestsInFlight) + Cardinality(OpenSources) <= 1
    /\ \A e \in OpenSources : e = page.eventSource

\* C28: every cancel request the page sent while its EventSource was reading a
\* stream carries the analysis_id of that stream, the one its start event
\* announces.
C28_CancelNamesTheStream ==
    \A i \in 1..Len(page.sent) :
        page.sent[i].stream # 0 =>
            page.sent[i].analysisId = uuid4(page.sent[i].stream)

\* C29: an EventSource whose handler has handled a complete, cancelled or
\* error event, or an EventSource error, is closed; the handler leaves
\* AppState.eventSource null and isAnalyzing false; and content is appended
\* to analysisResults only while isAnalyzing is true.
StopKinds == TerminalTypes \cup {"onerror"}
C29_StoppedStaysStopped ==
    /\ [](\A e \in PageSources :
            (page.sources[e].last \in StopKinds)
                => (page.sources[e].readyState = "closed"))
    /\ [][\A e \in PageSources :
            (/\ page'.sources[e].last \in StopKinds
             /\ <<page'.sources[e].last, page'.sources[e].received>>
                    # <<page.sources[e].last, page.sources[e].received>>)
                => (page'.eventSource = 0 /\ ~page'.isAnalyzing)]_vars
    /\ [][(page'.content > page.content) => page.isAnalyzing]_vars

\* C30: while isAnalyzing is true and the EventSource of AppState is open,
\* AppState.analysisId is not null, so cancelAnalysis passes its guard.
C30_RunningIsCancellable ==
    (page.isAnalyzing /\ IsOpen(page, page.eventSource))
        => page.analysisId # NoAnalysisId

\* C31: a startAnalysis call that fails, at the file read or at the analyze
\* request, leaves isAnalyzing false and no EventSource open; and isAnalyzing
\* is never true with no analyze request in flight and no open EventSource.
C31_FailureLeavesIdle ==
    /\ [][\A k \in PageCalls :
            (page.calls[k].pc # "failed" /\ page'.calls[k].pc = "failed")
                => (/\ ~page'.isAnalyzing
                    /\ \A e \in 1..Len(page'.sources) :
                            page'.sources[e].readyState = "closed")]_vars
    /\ [](page.isAnalyzing => (RequestsInFlight # {} \/ OpenSources # {}))

\* C32: the history list changes only in a step that ends an analysis with a
\* complete event while settings.saveHistory is true; the item of that
\* analysis is then first and the older items follow in their order; and the
\* list is never longer than settings.maxHistoryItems.
C32_HistoryOfCompleted ==
    /\ [][page'.history # page.history =>
            /\ page.settings.saveHistory
            /\ page'.runs = page.runs + 1
            /\ page'.ended = "complete"
            /\ page'.history[1] = generateAnalysisId(page'.runs)
            /\ \A i \in 2..Len(page'.history) :
                    page'.history[i] = page.history[i - 1]
            /\ Len(page'.history) = IF Len(page.history) < page.settings.maxHistoryItems
                                    THEN Len(page.history) + 1
                                    ELSE page.settings.maxHistoryItems]_vars
    /\ [](Len(page.history) <= page.settings.maxHistoryItems)

\* The list is full at the default limit after more analyses than it holds,
\* one of them not completed: the oldest item has been dropped.
C32_Witness ==
    /\ page.runs > maxHistoryItems + 1
    /\ page.settings.maxHistoryItems = maxHistoryItems
    /\ Len(page.history) = maxHistoryItems
    /\ page.ended = "complete"
    /\ page.history[1] = generateAnalysisId(page.runs)
    /\ page.history[maxHistoryItems] # generateAnalysisId(1)

\* C33: every progress event of an analysis has 1 <= current_chunk <=
\* total_chunks and 0 <= progress_percentage <= 100, and along the events of
\* one analysis current_chunk and progress_percentage never decrease.
ProgressAt(a) == {i \in 1..Len(an[a].events) : an[a].events[i].type = "progress"}
C33_ProgressWithinBounds ==
    \A a \in Analyses :
        /\ \A i \in ProgressAt(a) :
            LET e == an[a].events[i]
            IN /\ 1 <= e.current_chunk
               /\ e.current_chunk <= e.total_chunks
               /\ 0 <= e.progress_percentage
               /\ e.progress_percentage <= 100
        /\ \A i, j \in ProgressAt(a) :
            i < j => /\ an[a].events[i].current_chunk <= an[a].events[j].current_chunk
                     /\ an[a].events[i].progress_percentage
                            <= an[a].events[j].progress_percentage

\* C34: a call of ApiClient.request settles at most once; it returns the
\* parsed body only for an OK response, throws the server's message or
\* 'HTTP <status>' for a non-OK response and 'Request timeout' exactly when
\* its timer has aborted the fetch; and once it has settled its timer is not
\* armed, so no abort fires afterwards.
C34_RequestSettlesOnce ==
    \A q \in Requests :
        LET r == browser.requests[q]
        IN /\ r.settles <= 1
           /\ (r.pc = "settled") = (r.settles = 1)
           /\ r.outcome = "parsed JSON body" => response_ok(r.status)
           /\ (r.pc = "settled" /\ r.status # 0 /\ ~response_ok(r.status))
                => r.outcome \in {"server message", "HTTP status"}
           /\ r.pc = "settled" => (r.outcome = "Request timeout") = r.aborted
           /\ r.pc = "settled" => r.timer # "armed"

\* One call has returned the body of an OK response with its timer cleared
\* while another has thrown 'Request timeout'.
C34_Witness ==
    \E q, t \in Requests :
        /\ browser.requests[q].outcome = "parsed JSON body"
        /\ browser.requests[q].timer = "cleared"
        /\ browser.requests[t].outcome = "Request timeout"

\* C35: every chart the registry holds is alive and belongs to the canvas id
\* it is registered under, and every Chart that is alive is the one
\* registered for its canvas (so a canvas never has two); a create call for
\* a missing canvas returns null and changes neither registry nor charts;
\* destroyChart done twice is destroyChart done once; and destroyAllCharts
\* leaves the registry empty.
LiveCharts == {o \in 1..Len(browser.chartObjs) : ~browser.chartObjs[o].destroyed}
RegistryHoldsLiveCharts ==
    /\ \A c \in CanvasIds :
        browser.charts[c] # 0 =>
            /\ browser.charts[c] \in LiveCharts
            /\ browser.chartObjs[browser.charts[c]].canvasId = c
    /\ \A o \in LiveCharts :
        browser.charts[browser.chartObjs[o].canvasId] = o
    /\ \A c \in CanvasIds :
        destroyChart(destroyChart(browser, c), c) = destroyChart(browser, c)
    /\ browser.returned.op = "destroyAll" =>
        \A c \in CanvasIds : browser.charts[c] = 0
C35_RegistryHoldsLiveCharts ==
    /\ []RegistryHoldsLiveCharts
    /\ [][(/\ browser'.returned # browser.returned
            /\ browser'.returned.op = "create"
            /\ browser'.returned.chart = 0)
           => (/\ browser'.returned.canvasId \notin browser.canvases
               /\ browser'.charts = browser.charts
               /\ browser'.chartObjs = browser.chartObjs)]_vars

\* A chart was replaced by a create call for the same canvas: the old one is
\* destroyed, the new one registered; and a create call for a missing canvas
\* has returned null while a chart was registered.
C35_Witness ==
    /\ \E c \in CanvasIds, o \in 1..Len(browser.chartObjs) :
        /\ browser.chartObjs[o].canvasId = c
        /\ browser.chartObjs[o].destroyed
        /\ browser.charts[c] \in LiveCharts
    /\ browser.returned = [op |-> "create", canvasId |-> browser.returned.canvasId,
                           chart |-> 0]
    /\ browser.returned.canvasId # 0

\* C36: every invocation of the debounced function's func follows the last
\* call made before it by at least the wait and has that call's arguments,
\* so none happens between two calls that are less than the wait apart; no
\* two invocations follow the same call; and the only timer pending is the
\* one of the last call, which is pending unless that call has been invoked.
C36_DebounceInvokesLast ==
    LET d == browser.debounce
    IN /\ \A i \in 1..Len(d.invoked) :
            /\ d.invoked[i].calls >= 1
            /\ d.invoked[i].args = d.calls[d.invoked[i].calls].args
            /\ d.invoked[i].at >= d.calls[d.invoked[i].calls].at + Delay
       /\ \A i, j \in 1..Len(d.invoked) :
            i < j => d.invoked[i].calls < d.invoked[j].calls
       /\ \A t \in d.timers : t.id = Len(d.calls)
       /\ (d.calls # <<>> /\ d.timers = {}) =>
            (d.invoked # <<>> /\ d.invoked[Len(d.invoked)].calls = Len(d.calls))

\* A burst of three calls, each less than the wait after the one before and
\* with changing arguments, has been followed by its one invocation.
C36_Witness ==
    LET d == browser.debounce
    IN /\ Len(d.calls) = MaxCalls
       /\ \A j \in 2..Len(d.calls) :
            /\ d.calls[j].at > d.calls[j - 1].at
            /\ d.calls[j].at < d.calls[j - 1].at + Delay
            /\ d.calls[j].args # d.calls[j - 1].args
       /\ Len(d.invoked) = 1
       /\ d.invoked[1].args = d.calls[MaxCalls].args

\* C37: the first call of the throttled function is invoked; every
\* invocation happens at the time of its call and with its arguments; two
\* invocations are at least the limit apart; a call that found the window
\* open is never invoked, and a call that found it closed is invoked.
InvokedCalls == {browser.throttle.invoked[i].calls : i \in 1..Len(browser.throttle.invoked)}
C37_ThrottleDropsInWindow ==
    LET th == browser.throttle
    IN /\ th.calls # <<>> => 1 \in InvokedCalls
       /\ \A i \in 1..Len(th.invoked) :
            /\ th.invoked[i].at = th.calls[th.invoked[i].calls].at
            /\ th.invoked[i].args = th.calls[th.invoked[i].calls].args
       /\ \A i, j \in 1..Len(th.invoked) :
            i < j => th.invoked[j].at >= th.invoked[i].at + Delay
       /\ \A c \in 1..Len(th.calls) :
            (c \in InvokedCalls) = ~th.calls[c].inThrottle

\* The first call was invoked, the second came within the limit and was
\* dropped, and the third came after the window had closed and was invoked.
C37_Witness ==
    LET th == browser.throttle
    IN /\ Len(th.calls) = MaxCalls
       /\ th.calls[2].at < th.calls[1].at + Delay
       /\ th.calls[2].inThrottle
       /\ ~th.calls[MaxCalls].inThrottle
       /\ InvokedCalls = {1, MaxCalls}
       /\ browser.now > th.calls[MaxCalls].at

====
